---- MODULE Spec2Model ----
(***************************************************************************)
(* Explicit finite-difference Black-Scholes pricer (src/code.cpp).         *)
(*                                                                         *)
(* The class FiniteDifferencePricer is modelled as a state machine: one    *)
(* action per input prompt, per method and per loop iteration of run().    *)
(*                                                                         *)
(* A C++ double is modelled as a binary floating-point number with a       *)
(* significand of Precision bits, rounded to nearest (ties to even) after  *)
(* every operation, exactly as IEEE-754 arithmetic does with 53 bits.  A   *)
(* value is the pair <<m, e>> denoting m * 2^e, with m = 0 or              *)
(* 2^(Precision-1) <= |m| < 2^Precision.  The exponent is unbounded:       *)
(* overflow to infinity, underflow and NaN are outside the model, and the  *)
(* inputs are of moderate magnitude.  An int is a 32-bit integer.          *)
(*                                                                         *)
(* Spec is the whole of run() for the custom mode with small grids;        *)
(* SpecSizing is run() up to the call of computeCallOptionPrice for every  *)
(* mode, including the grids of 100, 2000 and 4000 steps.                  *)
(***************************************************************************)
EXTENDS Integers, Sequences, FiniteSets, TLC

\* Bits of the significand of the modelled double (53 in the real type).
Precision == 12

\* ------------------------------------------------------------------------
\* double arithmetic
\* ------------------------------------------------------------------------

Pow2(k) == 2^k

Abs(x) == IF x < 0 THEN -x ELSE x

Sgn(x) == IF x < 0 THEN -1 ELSE 1

RECURSIVE BitLen(_)
BitLen(a) == IF a = 0 THEN 0 ELSE 1 + BitLen(a \div 2)

Zero == <<0, 0>>

\* The double nearest to x * 2^e (ties to even).  sticky: x is the
\* truncation of a value with further non-zero bits below it.
RoundTo(x, e, sticky) ==
    IF x = 0 THEN Zero
    ELSE LET a == Abs(x)
             L == BitLen(a)
         IN  IF L <= Precision
             THEN <<Sgn(x) * a * Pow2(Precision - L), e - (Precision - L)>>
             ELSE LET s    == L - Precision
                      q    == a \div Pow2(s)
                      r    == a % Pow2(s)
                      half == Pow2(s - 1)
                      up   == r > half \/ (r = half /\ (sticky \/ q % 2 = 1))
                      q1   == IF up THEN q + 1 ELSE q
                  IN  IF q1 = Pow2(Precision)
                      THEN <<Sgn(x) * Pow2(Precision - 1), e + s + 1>>
                      ELSE <<Sgn(x) * q1, e + s>>

\* int -> double conversion
FromInt(n) == RoundTo(n, 0, FALSE)

FNeg(x) == <<-x[1], x[2]>>

FMul(x, y) ==
    IF x[1] = 0 \/ y[1] = 0 THEN Zero
    ELSE RoundTo(x[1] * y[1], x[2] + y[2], FALSE)

\* x / y for y # 0
FDiv(x, y) ==
    IF x[1] = 0 THEN Zero
    ELSE LET num == Abs(x[1]) * Pow2(Precision + 1)
             den == Abs(y[1])
         IN  RoundTo(Sgn(x[1]) * Sgn(y[1]) * (num \div den),
                     x[2] - y[2] - (Precision + 1),
                     num % den # 0)

FAdd(x, y) ==
    IF x[1] = 0 THEN y
    ELSE IF y[1] = 0 THEN x
    ELSE LET hi == IF x[2] >= y[2] THEN x ELSE y
             lo == IF x[2] >= y[2] THEN y ELSE x
             d  == hi[2] - lo[2]
         IN  IF d > Precision + 1 THEN hi
             ELSE RoundTo(hi[1] * Pow2(d) + lo[1], lo[2], FALSE)

FSub(x, y) == FAdd(x, FNeg(y))

\* x < y
FLt(x, y) ==
    IF x[1] = 0 THEN y[1] > 0
    ELSE IF y[1] = 0 THEN x[1] < 0
    ELSE IF x[1] < 0 /\ y[1] > 0 THEN TRUE
    ELSE IF x[1] > 0 /\ y[1] < 0 THEN FALSE
    ELSE IF x[1] > 0 THEN x[2] < y[2] \/ (x[2] = y[2] /\ x[1] < y[1])
    ELSE x[2] > y[2] \/ (x[2] = y[2] /\ x[1] < y[1])

FLe(x, y) == ~FLt(y, x)

\* std::min(a, b): b when b < a, else a
FMin(a, b) == IF FLt(b, a) THEN b ELSE a

\* std::max(a, b): b when a < b, else a
FMax(a, b) == IF FLt(a, b) THEN b ELSE a

\* std::floor, as an integer (the value is integral and fits the model's ints)
FloorInt(x) ==
    IF x[2] >= 0 THEN x[1] * Pow2(x[2])
    ELSE IF -x[2] > Precision THEN (IF x[1] < 0 THEN -1 ELSE 0)
    ELSE LET q == Abs(x[1]) \div Pow2(-x[2])
             exact == Abs(x[1]) % Pow2(-x[2]) = 0
         IN  IF x[1] >= 0 THEN q ELSE IF exact THEN -q ELSE -q - 1

\* A decimal literal num/den as the user types it, correctly rounded.
Dec(num, den) == FDiv(FromInt(num), FromInt(den))

One == FromInt(1)

Two == FromInt(2)

\* std::exp.  The library function is modelled by the degree-8 Taylor
\* polynomial of exp on |x| / 2^k < 1/2, squared k times, and inverted for
\* x < 0; every operation is a rounded double operation and exp(0) = 1.
RECURSIVE ExpPoly(_, _)
ExpPoly(y, n) ==
    IF n > 8 THEN One
    ELSE FAdd(One, FMul(FDiv(y, FromInt(n)), ExpPoly(y, n + 1)))

RECURSIVE SquareTimes(_, _)
SquareTimes(x, k) == IF k <= 0 THEN x ELSE SquareTimes(FMul(x, x), k - 1)

FExp(x) ==
    IF x[1] = 0 THEN One
    ELSE LET k == IF x[2] + Precision + 1 > 0 THEN x[2] + Precision + 1 ELSE 0
             y == <<Abs(x[1]), x[2] - k>>
             p == SquareTimes(ExpPoly(y, 1), k)
         IN  IF x[1] < 0 THEN FDiv(One, p) ELSE p

\* ------------------------------------------------------------------------
\* int arithmetic
\* ------------------------------------------------------------------------

IntMax == 2147483647

IntMin == -IntMax - 1

\* static_cast<int>(x): truncation toward zero.  A value outside the range of
\* int is undefined behaviour; the outcomes are the "integer indefinite"
\* value of the x86 conversion and the saturated value of other targets.
CastInt(x) ==
    IF x[1] = 0 THEN {0}
    ELSE IF x[2] + Precision > 31 THEN {IntMin, IntMax}
    ELSE IF x[2] >= 0 THEN {x[1] * Pow2(x[2])}
    ELSE IF -x[2] > Precision THEN {0}
    ELSE {Sgn(x[1]) * (Abs(x[1]) \div Pow2(-x[2]))}

\* c + 1 on int; the signed overflow wraps
IntInc(c) == IF c = IntMax THEN IntMin ELSE c + 1

\* ------------------------------------------------------------------------
\* state
\* ------------------------------------------------------------------------

VARIABLES
    pc,          \* position in run()
    params,      \* Parameters: type, S0, K, r, sigma, T
    Smax, N, M, dS, dt, U,
    mode,        \* run(): int mode
    U_old, m, j, tau,                \* locals of computeCallOptionPrice
    j0, price_call, Delta_call,      \* locals of displayResults
    Gamma, price, Delta,
    written,     \* indices of U assigned so far in the current time step
    reads        \* indices of U read by displayResults: [price, greeks]

vars == <<pc, params, Smax, N, M, dS, dt, U, mode, U_old, m, j, tau,
          j0, price_call, Delta_call, Gamma, price, Delta, written, reads>>

grid == <<N, M, dS, dt>>

solver == <<U, U_old, m, j, tau, written>>

results == <<j0, price_call, Delta_call, Gamma, price, Delta, reads>>

\* A member or local that holds no value yet.
Uninit == << >>

\* main(): Parameters params{100.0, 135.0, 0.05, 0.2, 1.0} fills the first
\* five members in declaration order and value-initialises T; the constructor
\* sets Smax, N and M and leaves dS and dt unset and U empty.
Init ==
    /\ pc = "inputType"
    /\ params = [type |-> FromInt(100), S0 |-> FromInt(135), K |-> Dec(5, 100),
                 r |-> Dec(2, 10), sigma |-> One, T |-> Zero]
    /\ Smax = FMul(FromInt(4), Dec(5, 100))
    /\ N = 50
    /\ M = 2000
    /\ dS = Uninit
    /\ dt = Uninit
    /\ U = << >>
    /\ mode = Uninit
    /\ U_old = Uninit
    /\ m = Uninit
    /\ j = Uninit
    /\ tau = Uninit
    /\ j0 = Uninit
    /\ price_call = Uninit
    /\ Delta_call = Uninit
    /\ Gamma = Uninit
    /\ price = Uninit
    /\ Delta = Uninit
    /\ written = {}
    /\ reads = [price |-> {}, greeks |-> {}]

\* ------------------------------------------------------------------------
\* inputParameters: one do-while loop per member; v is the number typed
\* ------------------------------------------------------------------------

inputType(v) ==
    /\ pc = "inputType"
    /\ params' = [params EXCEPT !.type = v]
    /\ pc' = IF v # Zero /\ v # One THEN "inputType" ELSE "inputS0"
    /\ UNCHANGED <<Smax, grid, mode, solver, results>>

inputS0(v) ==
    /\ pc = "inputS0"
    /\ params' = [params EXCEPT !.S0 = v]
    /\ pc' = IF FLe(v, Zero) THEN "inputS0" ELSE "inputK"
    /\ UNCHANGED <<Smax, grid, mode, solver, results>>

inputK(v) ==
    /\ pc = "inputK"
    /\ params' = [params EXCEPT !.K = v]
    /\ pc' = IF FLe(v, Zero) THEN "inputK" ELSE "inputR"
    /\ UNCHANGED <<Smax, grid, mode, solver, results>>

inputR(v) ==
    /\ pc = "inputR"
    /\ params' = [params EXCEPT !.r = v]
    /\ pc' = IF FLt(v, Zero) \/ FLt(One, v) THEN "inputR" ELSE "inputSigma"
    /\ UNCHANGED <<Smax, grid, mode, solver, results>>

inputSigma(v) ==
    /\ pc = "inputSigma"
    /\ params' = [params EXCEPT !.sigma = v]
    /\ pc' = IF FLe(v, Zero) \/ FLt(One, v) THEN "inputSigma" ELSE "inputT"
    /\ UNCHANGED <<Smax, grid, mode, solver, results>>

\* the last loop, and Smax = 4.0 * params.K once it is left
inputT(v) ==
    /\ pc = "inputT"
    /\ params' = [params EXCEPT !.T = v]
    /\ IF FLe(v, Zero)
       THEN pc' = "inputT" /\ Smax' = Smax
       ELSE pc' = "chooseMode" /\ Smax' = FMul(FromInt(4), params.K)
    /\ UNCHANGED <<grid, mode, solver, results>>

chooseMode(v) ==
    /\ pc = "chooseMode"
    /\ mode' = v
    /\ pc' = "configureMode"
    /\ UNCHANGED <<params, Smax, grid, solver, results>>

\* ------------------------------------------------------------------------
\* configureMode and checkStability
\* ------------------------------------------------------------------------

M_target == 100

\* dS * dS / (sigma * sigma * Smax * Smax)
StabilityBound(dS_, sigma_, Smax_) ==
    FDiv(FMul(dS_, dS_), FMul(FMul(FMul(sigma_, sigma_), Smax_), Smax_))

\* Mutant: the cap T / M_target alone, the stability bound forgotten.
TimeStepSize_CapOnly(dS_, sigma_, Smax_, T_) == FDiv(T_, FromInt(M_target))

\* dt = std::min(stability bound, dt_max), dt_max = T / M_target
TimeStepSize(dS_, sigma_, Smax_, T_) ==
    FMin(StabilityBound(dS_, sigma_, Smax_), FDiv(T_, FromInt(M_target)))

\* M = static_cast<int>(T / dt) + 1: the values the build can produce
TimeSteps(T_, dt_) == {IntInc(c) : c \in CastInt(FDiv(T_, dt_))}

\* the switch; n is the number typed at the prompt of mode 3
SpatialSteps(mode_, n) ==
    CASE mode_ = 1 -> 2000
      [] mode_ = 2 -> 100
      [] mode_ = 3 -> n
      [] OTHER     -> 100

configureMode(n) ==
    /\ pc = "configureMode"
    /\ LET N1  == SpatialSteps(mode, n)
           dS1 == FDiv(Smax, FromInt(N1))
           dt1 == TimeStepSize(dS1, params.sigma, Smax, params.T)
       IN  /\ N' = N1
           /\ dS' = dS1
           /\ dt' = dt1
           /\ M' \in TimeSteps(params.T, dt1)
    /\ pc' = "checkStability"
    /\ UNCHANGED <<params, Smax, mode, solver, results>>

Stable == FLe(dt, StabilityBound(dS, params.sigma, Smax))

\* run(): if (!checkStability()) { ...; return; }
checkStability ==
    /\ pc = "checkStability"
    /\ pc' = IF Stable THEN "compute" ELSE "aborted"
    /\ UNCHANGED <<params, Smax, grid, mode, solver, results>>

\* ------------------------------------------------------------------------
\* computeCallOptionPrice
\* ------------------------------------------------------------------------

\* Mutant: the payoff without its floor at zero.
call_payoff_NoFloor(S, K_) == FSub(S, K_)

call_payoff(S, K_) == FMax(FSub(S, K_), Zero)

PayoffGrid == [jj \in 0..N |-> call_payoff(FMul(FromInt(jj), dS), params.K)]

\* U.assign(N + 1, 0.0), U_old(N + 1, 0.0) and the payoff loop.  For
\* N + 1 < 0 the size converts to a size_t above max_size(): assign throws
\* std::length_error, nothing catches it and the program is terminated.
computeCallOptionPrice ==
    /\ pc = "compute"
    /\ IF N + 1 < 0
       THEN /\ pc' = "terminated"
            /\ UNCHANGED solver
       ELSE /\ U' = PayoffGrid
            /\ U_old' = [jj \in 0..N |-> Zero]
            /\ m' = M
            /\ pc' = "loop"
            /\ UNCHANGED <<j, tau, written>>
    /\ UNCHANGED <<params, Smax, grid, mode, results>>

\* for (m = M; m > 0; m--) { U_old = U; for (j = 1; ...
timeStepBegin ==
    /\ pc = "loop"
    /\ m > 0
    /\ U_old' = U
    /\ j' = 1
    /\ written' = {}
    /\ pc' = "interior"
    /\ UNCHANGED <<params, Smax, grid, mode, U, m, tau, results>>

\* Mutant: the recurrence reads the layer it is writing (no double buffer).
PreviousLayer_InPlace == U

\* The layer the recurrence reads.
PreviousLayer == U_old

\* a * Uo[jj - 1] + b * Uo[jj] + c * Uo[jj + 1]
Recurrence(Uo, jj) ==
    LET S     == FMul(FromInt(jj), dS)
        sig   == params.sigma
        alpha == FDiv(FMul(FMul(FMul(FMul(sig, sig), S), S), dt),
                      FMul(FMul(Two, dS), dS))
        beta  == FDiv(FMul(FMul(params.r, S), dt), FMul(Two, dS))
        a     == FSub(alpha, beta)
        b     == FSub(FSub(One, FMul(params.r, dt)), FMul(Two, alpha))
        c     == FAdd(alpha, beta)
    IN  FAdd(FAdd(FMul(a, Uo[jj - 1]), FMul(b, Uo[jj])), FMul(c, Uo[jj + 1]))

\* one iteration of for (j = 1; j < N; j++)
interiorUpdate ==
    /\ pc = "interior"
    /\ j < N
    /\ U' = [U EXCEPT ![j] = Recurrence(PreviousLayer, j)]
    /\ j' = j + 1
    /\ written' = written \cup {j}
    /\ UNCHANGED <<pc, params, Smax, grid, mode, U_old, m, tau, results>>

\* Mutant: tau taken from m instead of m - 1.
TimeToMaturity_OffByOne(m_) == FSub(params.T, FMul(FromInt(m_), dt))

\* tau = T - (m - 1) * dt
TimeToMaturity(m_) == FSub(params.T, FMul(FromInt(m_ - 1), dt))

\* Smax - K * exp(-r * tau)
FarBoundary(tau_) ==
    FSub(Smax, FMul(params.K, FExp(FMul(FNeg(params.r), tau_))))

\* the value assigned to U[0]
ZeroBoundary == Zero

\* the end of the inner loop, the two boundary assignments and m--
boundaryUpdate ==
    /\ pc = "interior"
    /\ ~(j < N)
    /\ tau' = TimeToMaturity(m)
    /\ U' = [U EXCEPT ![0] = ZeroBoundary, ![N] = FarBoundary(tau')]
    /\ written' = written \cup {0, N}
    /\ m' = m - 1
    /\ pc' = "loop"
    /\ UNCHANGED <<params, Smax, grid, mode, U_old, j, results>>

loopExit ==
    /\ pc = "loop"
    /\ ~(m > 0)
    /\ pc' = "display"
    /\ UNCHANGED <<params, Smax, grid, mode, solver, results>>

\* ------------------------------------------------------------------------
\* displayResults
\* ------------------------------------------------------------------------

\* j0 = static_cast<int>(std::floor(S0 / dS))
SpotIndex == FloorInt(FDiv(params.S0, dS))

Interpolates(j0_) == j0_ >= 0 /\ j0_ < N

HasNeighbours(j0_) == j0_ > 0 /\ j0_ < N

\* the indices of U that the price expression reads
PriceReads(j0_) == IF Interpolates(j0_) THEN {j0_, j0_ + 1} ELSE {j0_}

\* the indices of U that the Delta and Gamma expressions read
GreekReads(j0_) == IF HasNeighbours(j0_) THEN {j0_ - 1, j0_, j0_ + 1} ELSE {}

\* What a read of U past its end can yield when it does not fault.
Indeterminate == {Zero, FromInt(-3), Dec(7, 2)}

\* (j0 >= 0 && j0 < N) ? (1.0 - w) * U[j0] + w * U[j0 + 1] : U[j0]
\* U[j0] outside the vector is undefined behaviour: any value.
CallPrice(j0_) ==
    LET w == FSub(FDiv(params.S0, dS), FromInt(j0_))
    IN  IF Interpolates(j0_)
        THEN {FAdd(FMul(FSub(One, w), U[j0_]), FMul(w, U[j0_ + 1]))}
        ELSE IF j0_ \in DOMAIN U THEN {U[j0_]} ELSE Indeterminate

\* Mutant: a one-sided difference in place of the central one.
CallDelta_OneSided(j0_) ==
    IF HasNeighbours(j0_)
    THEN FDiv(FSub(U[j0_ + 1], U[j0_]), dS)
    ELSE Zero

CallDelta(j0_) ==
    IF HasNeighbours(j0_)
    THEN FDiv(FSub(U[j0_ + 1], U[j0_ - 1]), FMul(Two, dS))
    ELSE Zero

CallGamma(j0_) ==
    IF HasNeighbours(j0_)
    THEN FDiv(FAdd(FSub(U[j0_ + 1], FMul(Two, U[j0_])), U[j0_ - 1]),
              FMul(dS, dS))
    ELSE Zero

\* if (params.type == 0) price = price_call - S0 + K * exp(-r * T)
ReportedPrice(call) ==
    IF params.type = Zero
    THEN FAdd(FSub(call, params.S0),
              FMul(params.K, FExp(FMul(FNeg(params.r), params.T))))
    ELSE call

\* Mutant: the put Delta left equal to the call Delta.
ReportedDelta_NoShift(call) == call

\* if (params.type == 0) Delta = Delta_call - 1
ReportedDelta(call) ==
    IF params.type = Zero THEN FSub(call, FromInt(1)) ELSE call

displayResults ==
    /\ pc = "display"
    /\ j0' = SpotIndex
    /\ reads' = [price |-> PriceReads(j0'), greeks |-> GreekReads(j0')]
    /\ \/ /\ price_call' \in CallPrice(j0')
          /\ Delta_call' = CallDelta(j0')
          /\ Gamma' = CallGamma(j0')
          /\ price' = ReportedPrice(price_call')
          /\ Delta' = ReportedDelta(Delta_call')
          /\ pc' = "done"
       \/ /\ ~(PriceReads(j0') \subseteq DOMAIN U)
          /\ pc' = "terminated"
          /\ UNCHANGED <<price_call, Delta_call, Gamma, price, Delta>>
    /\ UNCHANGED <<params, Smax, grid, mode, solver>>

\* ------------------------------------------------------------------------
\* inputs and specifications
\* ------------------------------------------------------------------------

\* Numbers typed at the prompts; the last of each set is one the loop rejects.
TypeIn == {Zero, One, Two}

S0In == {FromInt(3), FromInt(9), FromInt(13), FromInt(-1)}

KIn == {Two, Zero}

RIn == {Dec(5, 100), Two}

SigmaIn == {One, Dec(3, 2)}

TIn == {One, Dec(33, 10), FromInt(12), Zero}

\* The full run is explored for the custom mode, whose grids are small.
ModeIn == {3}

\* 0 is left out (Smax / 0 is an infinity, which the modelled double does not
\* hold) and so is -1 (an empty grid, written out of bounds).
NIn == {-2, 1, 2, 3}

Next ==
    \/ \E v \in TypeIn : inputType(v)
    \/ \E v \in S0In : inputS0(v)
    \/ \E v \in KIn : inputK(v)
    \/ \E v \in RIn : inputR(v)
    \/ \E v \in SigmaIn : inputSigma(v)
    \/ \E v \in TIn : inputT(v)
    \/ \E v \in ModeIn : chooseMode(v)
    \/ pc = "configureMode" /\ \E n \in (IF mode = 3 THEN NIn ELSE {N}) : configureMode(n)
    \/ checkStability
    \/ computeCallOptionPrice
    \/ timeStepBegin
    \/ interiorUpdate
    \/ boundaryUpdate
    \/ loopExit
    \/ displayResults

Spec == Init /\ [][Next]_vars

\* run() up to the call of computeCallOptionPrice, for every mode and for
\* the parameters and step counts that only the sizing of the grid can afford.
TypeInSz == {One, Two}

S0InSz == {FromInt(3), Zero}

KInSz == {Two, FromInt(135), Zero}

SigmaInSz == {Dec(5, 100), One, Zero}

TInSz == {One, Dec(33, 10), FromInt(150), FromInt(-1)}

ModeInSz == {1, 2, 3, 4}

NInSz == {-2, 3, 4000}

NextSizing ==
    \/ \E v \in TypeInSz : inputType(v)
    \/ \E v \in S0InSz : inputS0(v)
    \/ \E v \in KInSz : inputK(v)
    \/ \E v \in RIn : inputR(v)
    \/ \E v \in SigmaInSz : inputSigma(v)
    \/ \E v \in TInSz : inputT(v)
    \/ \E v \in ModeInSz : chooseMode(v)
    \/ pc = "configureMode" /\ \E n \in (IF mode = 3 THEN NInSz ELSE {N}) : configureMode(n)
    \/ checkStability

SpecSizing == Init /\ [][NextSizing]_vars

\* ------------------------------------------------------------------------
\* properties
\* ------------------------------------------------------------------------

\* configureMode has returned
Sized == pc \in {"checkStability", "compute", "aborted", "loop", "interior",
                 "display", "done", "terminated"}

\* at least one time step has been completed and the loop is at its head
StepDone == pc = "loop" /\ m < M

FAbs(x) == <<Abs(x[1]), x[2]>>

Half(x) == FDiv(x, Two)

C2_FarBoundary ==
    /\ StepDone =>
          /\ tau = FSub(params.T, FMul(FromInt(m), dt))
          /\ U[N] = FSub(Smax, FMul(params.K,
                                    FExp(FMul(FNeg(params.r), tau))))
          /\ (m = 0 => tau = params.T)
    /\ (pc \in {"display", "done"} /\ M > 0) =>
          U[N] = FSub(Smax, FMul(params.K,
                                 FExp(FMul(FNeg(params.r), params.T))))

\* the loop has run to its end with a discount that shows in U[N]
C2_Witness ==
    /\ pc = "display"
    /\ M > 100
    /\ tau = params.T
    /\ U[N] # FSub(Smax, params.K)

\* C3: U[0] is 0 in the payoff grid and after every time step, for N >= 1.
C3_ZeroBoundary ==
    (pc \in {"loop", "interior", "display", "done"} /\ N >= 1) => U[0] = Zero

\* a grid without interior points (N = 1), several steps into the loop
C3_Witness ==
    /\ pc = "loop"
    /\ N = 1
    /\ m < M - 1
    /\ U[0] = Zero
    /\ U[1] # Zero

\* C4: every index of U that displayResults reads lies in 0..N, and the
\* evaluation never fails, whatever the spot S0 > 0.
C4_ReadsWithinGrid ==
    /\ pc = "done" => (reads.price \cup reads.greeks) \subseteq 0..N
    /\ ~(pc = "terminated" /\ reads.price # {})

\* C5: for a put (type = 0) the reported price is
\* price_call - S0 + K * exp(-r * T) and the reported Delta is Delta_call - 1;
\* for a call both are the call values; Gamma is the call Gamma in both cases.
C5_PutCallParity ==
    pc = "done" =>
       /\ IF params.type = Zero
          THEN /\ price = FAdd(FSub(price_call, params.S0),
                               FMul(params.K,
                                    FExp(FMul(FNeg(params.r), params.T))))
               /\ Delta = FSub(Delta_call, One)
          ELSE /\ price = price_call
               /\ Delta = Delta_call
       /\ Gamma = IF 0 < j0 /\ j0 < N
                  THEN FDiv(FAdd(FSub(U[j0 + 1], FMul(Two, U[j0])), U[j0 - 1]),
                            FMul(dS, dS))
                  ELSE Zero

\* a put priced at a spot with both neighbours on the grid
C5_Witness ==
    /\ pc = "done"
    /\ params.type = Zero
    /\ 0 < j0 /\ j0 < N
    /\ price # price_call
    /\ Delta # Delta_call

\* C6: computeCallOptionPrice is entered only with S0 > 0, K > 0, T > 0,
\* r in [0, 1], sigma in (0, 1] and N > 0.
C6_PreconditionsAtEntry ==
    pc = "compute" =>
       /\ FLt(Zero, params.S0)
       /\ FLt(Zero, params.K)
       /\ FLt(Zero, params.T)
       /\ FLe(Zero, params.r) /\ FLe(params.r, One)
       /\ FLt(Zero, params.sigma) /\ FLe(params.sigma, One)
       /\ N > 0

\* C7: for N > 0 the computed T / dt is at least 100 and the number of time
\* steps M is at least 101.
C7_AtLeast101Steps ==
    (Sized /\ N > 0) =>
       /\ FLe(FromInt(100), FDiv(params.T, dt))
       /\ M >= 101

\* C8: with j0 = floor(S0 / dS), Delta_call and Gamma are the central
\* differences over U[j0 - 1], U[j0], U[j0 + 1] when 0 < j0 < N, and are both
\* 0 otherwise, in which case no element of U is read for them.
C8_Greeks ==
    pc = "done" =>
       /\ j0 = FloorInt(FDiv(params.S0, dS))
       /\ IF 0 < j0 /\ j0 < N
          THEN /\ Delta_call = FDiv(FSub(U[j0 + 1], U[j0 - 1]), FMul(Two, dS))
               /\ Gamma = FDiv(FAdd(FSub(U[j0 + 1], FMul(Two, U[j0])),
                                    U[j0 - 1]),
                               FMul(dS, dS))
               /\ reads.greeks = {j0 - 1, j0, j0 + 1}
          ELSE /\ Delta_call = Zero
               /\ Gamma = Zero
               /\ reads.greeks = {}
       /\ reads.greeks \subseteq 0..N

\* a spot with both neighbours on the grid and a slope between them
C8_Witness ==
    /\ pc = "done"
    /\ 0 < j0 /\ j0 < N
    /\ Delta_call # Zero
    /\ Gamma # Zero

\* C9: within a time step every interior U[k] already written is the
\* recurrence over the layer as it was before the step (U_old), the elements
\* not yet written still hold that layer, and a step is complete, with every
\* index 0..N written, before the next one begins.
C9_ReadsPreviousLayer ==
    /\ pc = "interior" =>
          \A k \in 0..N :
             IF 1 <= k /\ k < j
             THEN U[k] = Recurrence(U_old, k)
             ELSE U[k] = U_old[k]
    /\ StepDone =>
          /\ written = 0..N
          /\ \A k \in 1..(N - 1) : U[k] = Recurrence(U_old, k)

\* the second interior element is written after the first has changed
C9_Witness ==
    /\ pc = "interior"
    /\ N = 3
    /\ j = 3
    /\ U[1] # U_old[1]
    /\ U[2] # U_old[2]

\* C10: after the k-th iteration the time to maturity is k * dt, and the M
\* iterations advance M * dt = T in all (each to within half a step, to
\* allow for rounding).
C10_EachStepAdvancesDt ==
    StepDone =>
       /\ FLe(FAbs(FSub(tau, FMul(FromInt(M - m), dt))), Half(dt))
       /\ (m = 0 =>
              FLe(FAbs(FSub(FMul(FromInt(M), dt), params.T)), Half(dt)))

====
